---- MODULE Spec2Model ----
(***************************************************************************)
(* Model of the question-answering pipeline of                             *)
(* Multi-Constraint-Agentic-Search-Framework: src/src/mian.py (main),      *)
(* src/src/clean.py (clean_answer_aggressive) and src/src/extract.py.      *)
(*                                                                         *)
(* A Python str is modelled as a sequence of characters, each character a  *)
(* one-character TLA+ string; a character outside ASCII is written by its  *)
(* code point ("U+FF0C" is the full-width comma) and still counts as one   *)
(* element, so Len is Python's len.                                        *)
(***************************************************************************)
EXTENDS Integers, Sequences, FiniteSets, TLC

VARIABLES
    questions,         \* mian.py:57, the loaded input list
    i,                 \* mian.py:68, the position in questions, counted from 1
    pc,                \* where main() stands
    core_question,     \* mian.py:89
    entities,          \* mian.py:95
    search_query,      \* mian.py:96
    relevant_context,  \* mian.py:149
    answer_list,       \* mian.py:186, what the first generation call did
    answer_text,       \* mian.py:190 and 203
    retry,             \* mian.py:200, what the retry call did
    result_item,       \* mian.py:183
    f_out,             \* mian.py:66 and 230, the records written to the output file
    flushed,           \* mian.py:231, how many of them have reached the file
    process_logs,      \* mian.py:64 and 228
    log_file,          \* mian.py:236-237, the dumps made into the trace log file
    calls,             \* the remote calls made for the current question
    call,   \* harness of the pure functions: the function called and its arguments
    ret     \* harness of the pure functions: <<>> before the call returns, then its results

\* the state of main()
pvars == <<questions, i, pc, core_question, entities, search_query, relevant_context,
           answer_list, answer_text, retry, result_item, f_out, flushed,
           process_logs, log_file, calls>>

vars == <<pvars, call, ret>>

-----------------------------------------------------------------------------
(* Python str primitives *)

\* str.strip() with no argument strips these
Whitespace == {" ", "\t", "\n", "\r", "\f"}

Min(S) == CHOOSE x \in S : \A y \in S : x <= y

\* s[:n]
Take(s, n) == SubSeq(s, 1, IF n < Len(s) THEN n ELSE Len(s))

\* s[n:]
Drop(s, n) == SubSeq(s, n + 1, Len(s))

\* s.startswith(p)
StartsWith(s, p) == Len(p) <= Len(s) /\ SubSeq(s, 1, Len(p)) = p

\* c in s, for a single character c
HasChar(s, c) == \E k \in 1..Len(s) : s[k] = c

\* s.index(c), 0-based; only used when c is in s
IndexOf(s, c) == Min({k \in 1..Len(s) : s[k] = c}) - 1

\* sub in s, for a string sub
HasSub(s, sub) == \E k \in 0..(Len(s) - Len(sub)) : SubSeq(s, k + 1, k + Len(sub)) = sub

RECURSIVE LStrip(_, _)
\* s.lstrip(cs)
LStrip(s, cs) == IF s # <<>> /\ Head(s) \in cs THEN LStrip(Tail(s), cs) ELSE s

RECURSIVE RStrip(_, _)
\* s.rstrip(cs)
RStrip(s, cs) ==
    IF s # <<>> /\ s[Len(s)] \in cs THEN RStrip(SubSeq(s, 1, Len(s) - 1), cs) ELSE s

\* s.strip(cs)
StripChars(s, cs) == RStrip(LStrip(s, cs), cs)

\* s.strip()
Strip(s) == StripChars(s, Whitespace)

RECURSIVE Concat(_)
\* "".join(parts)
Concat(parts) == IF parts = <<>> THEN <<>> ELSE Head(parts) \o Concat(Tail(parts))

RECURSIVE Split(_, _)
\* s.split(c), for a single character c
Split(s, c) ==
    IF ~HasChar(s, c) THEN <<s>>
    ELSE <<Take(s, IndexOf(s, c))>> \o Split(Drop(s, IndexOf(s, c) + 1), c)

\* s.replace(a, b), for single characters a and b
Replace(s, a, b) == [k \in 1..Len(s) |-> IF s[k] = a THEN b ELSE s[k]]

\* [x.strip() for x in parts if x.strip()]
StripAndKeep(parts) ==
    SelectSeq([k \in 1..Len(parts) |-> Strip(parts[k])], LAMBDA x : x # <<>>)

RECURSIVE Join(_, _)
\* sep.join(parts), for a string sep
Join(parts, sep) ==
    IF parts = <<>> THEN <<>>
    ELSE IF Len(parts) = 1 THEN parts[1]
    ELSE parts[1] \o sep \o Join(Tail(parts), sep)

\* the length of the longest prefix of s made of characters of C
PrefixIn(s, C) ==
    IF \A k \in 1..Len(s) : s[k] \in C THEN Len(s)
    ELSE Min({k \in 1..Len(s) : s[k] \notin C}) - 1

\* the length of the longest prefix of s made of characters outside C
PrefixNotIn(s, C) ==
    IF \A k \in 1..Len(s) : s[k] \notin C THEN Len(s)
    ELSE Min({k \in 1..Len(s) : s[k] \in C}) - 1

RECURSIVE Runs(_, _)
\* the maximal runs of characters of C in s, in order: re.findall of [C]+
Runs(s, C) ==
    IF s = <<>> THEN <<>>
    ELSE IF Head(s) \notin C THEN Runs(Tail(s), C)
    ELSE <<Take(s, PrefixIn(s, C))>> \o Runs(Drop(s, PrefixIn(s, C)), C)

RECURSIVE SplitAny(_, _)
\* re.split of the one-character class [C]: a cut at every character of C
SplitAny(s, C) ==
    IF PrefixNotIn(s, C) = Len(s) THEN <<s>>
    ELSE <<Take(s, PrefixNotIn(s, C))>> \o SplitAny(Drop(s, PrefixNotIn(s, C) + 1), C)

RECURSIVE SplitRuns(_, _)
\* re.split of [C]+: a cut at every maximal run of characters of C
SplitRuns(s, C) ==
    IF PrefixNotIn(s, C) = Len(s) THEN <<s>>
    ELSE LET rest == Drop(s, PrefixNotIn(s, C))
         IN  <<Take(s, PrefixNotIn(s, C))>> \o SplitRuns(Drop(rest, PrefixIn(rest, C)), C)

UpperCase ==
    <<"A", "B", "C", "D", "E", "F", "G", "H", "I", "J", "K", "L", "M",
      "N", "O", "P", "Q", "R", "S", "T", "U", "V", "W", "X", "Y", "Z">>

LowerCase ==
    <<"a", "b", "c", "d", "e", "f", "g", "h", "i", "j", "k", "l", "m",
      "n", "o", "p", "q", "r", "s", "t", "u", "v", "w", "x", "y", "z">>

\* the regular expression class [A-Za-z]
Letters == {UpperCase[k] : k \in 1..26} \cup {LowerCase[k] : k \in 1..26}

\* the regular expression class \d, on the characters the texts use
Digits == {"0", "1", "2", "3", "4", "5", "6", "7", "8", "9"}

\* the Han characters the texts use; a Han character is a word character (\w)
HanLetters == {"U+4E1C", "U+4EAC"}

\* the regular expression class \w, on the characters the texts use
WordChars == Letters \cup Digits \cup {"_"} \cup HanLetters

\* s.lower()
Lower(s) ==
    [k \in 1..Len(s) |->
        IF \E j \in 1..26 : UpperCase[j] = s[k]
        THEN LowerCase[CHOOSE j \in 1..26 : UpperCase[j] = s[k]]
        ELSE s[k]]

\* re.findall(r'\b[A-Za-z]{lo,hi}\b', s): a match starts and ends at a word
\* boundary, so it is a maximal run of word characters, all of them letters
LetterWords(s, lo, hi) ==
    SelectSeq(Runs(s, WordChars),
              LAMBDA w : /\ Len(w) >= lo
                         /\ Len(w) <= hi
                         /\ \A k \in 1..Len(w) : w[k] \in Letters)

\* the elements of a sequence, as a set
Range(seq) == {seq[k] : k \in 1..Len(seq)}

DigitChars == <<"0", "1", "2", "3", "4", "5", "6", "7", "8", "9">>

RECURSIVE Decimal(_)
\* str(n), for n >= 0
Decimal(n) ==
    IF n < 10 THEN <<DigitChars[n + 1]>>
    ELSE Decimal(n \div 10) \o <<DigitChars[(n % 10) + 1]>>

\* every sequence over S of length at most n
SeqsUpTo(S, n) == UNION {[1..k -> S] : k \in 0..n}

-----------------------------------------------------------------------------
(* clean.py: clean_answer_aggressive *)

\* clean.py:9-17, in the order of the list
bad_starts ==
  <<
    (*  1 "According to the provided information"  *) <<"A", "c", "c", "o", "r", "d", "i", "n", "g", " ", "t", "o", " ", "t", "h", "e", " ", "p", "r", "o", "v", "i", "d", "e", "d", " ", "i", "n", "f", "o", "r", "m", "a", "t", "i", "o", "n">>,
    (*  2 "According to the reference"             *) <<"A", "c", "c", "o", "r", "d", "i", "n", "g", " ", "t", "o", " ", "t", "h", "e", " ", "r", "e", "f", "e", "r", "e", "n", "c", "e">>,
    (*  3 "According to"                           *) <<"A", "c", "c", "o", "r", "d", "i", "n", "g", " ", "t", "o">>,
    (*  4 "Based on the information"               *) <<"B", "a", "s", "e", "d", " ", "o", "n", " ", "t", "h", "e", " ", "i", "n", "f", "o", "r", "m", "a", "t", "i", "o", "n">>,
    (*  5 "Based on the reference"                 *) <<"B", "a", "s", "e", "d", " ", "o", "n", " ", "t", "h", "e", " ", "r", "e", "f", "e", "r", "e", "n", "c", "e">>,
    (*  6 "Based on"                               *) <<"B", "a", "s", "e", "d", " ", "o", "n">>,
    (*  7 "From the information"                   *) <<"F", "r", "o", "m", " ", "t", "h", "e", " ", "i", "n", "f", "o", "r", "m", "a", "t", "i", "o", "n">>,
    (*  8 "From the reference"                     *) <<"F", "r", "o", "m", " ", "t", "h", "e", " ", "r", "e", "f", "e", "r", "e", "n", "c", "e">>,
    (*  9 "The provided information"               *) <<"T", "h", "e", " ", "p", "r", "o", "v", "i", "d", "e", "d", " ", "i", "n", "f", "o", "r", "m", "a", "t", "i", "o", "n">>,
    (* 10 "The reference shows"                    *) <<"T", "h", "e", " ", "r", "e", "f", "e", "r", "e", "n", "c", "e", " ", "s", "h", "o", "w", "s">>,
    (* 11 "The information shows"                  *) <<"T", "h", "e", " ", "i", "n", "f", "o", "r", "m", "a", "t", "i", "o", "n", " ", "s", "h", "o", "w", "s">>,
    (* 12 "The search results show"                *) <<"T", "h", "e", " ", "s", "e", "a", "r", "c", "h", " ", "r", "e", "s", "u", "l", "t", "s", " ", "s", "h", "o", "w">>,
    (* 13 "Here is"                                *) <<"H", "e", "r", "e", " ", "i", "s">>,
    (* 14 "Here are"                               *) <<"H", "e", "r", "e", " ", "a", "r", "e">>,
    (* 15 "This is"                                *) <<"T", "h", "i", "s", " ", "i", "s">>,
    (* 16 "This"                                   *) <<"T", "h", "i", "s">>,
    (* 17 "That"                                   *) <<"T", "h", "a", "t">>,
    (* 18 "The"                                    *) <<"T", "h", "e">>,
    (* 19 "The answer is"                          *) <<"T", "h", "e", " ", "a", "n", "s", "w", "e", "r", " ", "i", "s">>,
    (* 20 "Answer is"                              *) <<"A", "n", "s", "w", "e", "r", " ", "i", "s">>,
    (* 21 "Answer:"                                *) <<"A", "n", "s", "w", "e", "r", ":">>,
    (* 22 "Answer:"                                *) <<"A", "n", "s", "w", "e", "r", ":">>,
    (* 23 "It is:"                                 *) <<"I", "t", " ", "i", "s", ":">>,
    (* 24 "It is"                                  *) <<"I", "t", " ", "i", "s">>,
    (* 25 "It:"                                    *) <<"I", "t", ":">>,
    (* 26 "Is:"                                    *) <<"I", "s", ":">>,
    (* 27 "Is"                                     *) <<"I", "s">>,
    (* 28 "Should be"                              *) <<"S", "h", "o", "u", "l", "d", " ", "b", "e">>,
    (* 29 "Could be"                               *) <<"C", "o", "u", "l", "d", " ", "b", "e">>,
    (* 30 "Might be"                               *) <<"M", "i", "g", "h", "t", " ", "b", "e">>
  >>

\* clean.py:25, the colon must occur before this index
ColonWindow == 15

\* clean.py:35, a first clause is adopted only when longer than this
MinClauseLen == 2

\* clean.py:43, the length cap
MaxAnswerLen == 30

\* clean.py:47, the slice of the original returned when nothing is left
FallbackLen == 20

\* clean.py:32, the clause delimiters in the order they are tried
delimiters == <<",", ".", "\n", ";">>

RECURSIVE StripBadStart_nobreak(_, _)
\* the loop without its break: the later entries are tried on what is left
StripBadStart_nobreak(answer, k) ==
    IF k > Len(bad_starts) THEN answer
    ELSE StripBadStart_nobreak(IF StartsWith(answer, bad_starts[k])
                               THEN Strip(Drop(answer, Len(bad_starts[k])))
                               ELSE answer,
                               k + 1)

RECURSIVE StripBadStart(_, _)
\* clean.py:19-22: the loop over bad_starts from entry k on; the first entry the
\* answer starts with is removed, the rest is stripped, and the loop breaks
StripBadStart(answer, k) ==
    IF k > Len(bad_starts) THEN answer
    ELSE IF StartsWith(answer, bad_starts[k])
         THEN Strip(Drop(answer, Len(bad_starts[k])))
         ELSE StripBadStart(answer, k + 1)

\* clean.py:25-26
ColonSplit(answer) ==
    IF HasChar(answer, ":") /\ IndexOf(answer, ":") < ColonWindow
    THEN Strip(Drop(answer, IndexOf(answer, ":") + 1))
    ELSE answer

QuoteStrip_slice(answer) == SubSeq(answer, 2, Len(answer) - 1)

\* clean.py:29
QuoteStrip(answer) == StripChars(answer, {"\"", "'"})

RECURSIVE FirstClause(_, _)
\* clean.py:32-37: the loop over the delimiters from entry k on
FirstClause(answer, k) ==
    IF k > Len(delimiters) THEN answer
    ELSE IF HasChar(answer, delimiters[k])
         THEN LET first == Strip(Take(answer, IndexOf(answer, delimiters[k])))
              IN  IF Len(first) > MinClauseLen THEN first
                  ELSE FirstClause(answer, k + 1)
         ELSE FirstClause(answer, k + 1)

\* clean.py:40
TrailingPunct(answer) == RStrip(answer, {".", ",", ";", "!", "?"})

LengthCap_none(answer) == answer

\* clean.py:43-44
LengthCap(answer) == IF Len(answer) > MaxAnswerLen THEN Take(answer, MaxAnswerLen) ELSE answer

\* clean.py:1-47
clean_answer_aggressive(answer) ==
    IF answer = <<>> THEN <<>>
    ELSE LET original == answer
             a1 == StripBadStart(answer, 1)
             a2 == ColonSplit(a1)
             a3 == QuoteStrip(a2)
             a4 == FirstClause(a3, 1)
             a5 == TrailingPunct(a4)
             a6 == LengthCap(a5)
             a7 == Strip(a6)
         IN  IF a7 # <<>> THEN a7 ELSE Take(original, FallbackLen)

-----------------------------------------------------------------------------
(* extract.py.  A generator is modelled by what generator.generate does in the
   call: it raises, or it returns the list out (empty, or one string per prompt). *)

GeneratorRaises == [raises |-> TRUE, out |-> <<>>]

GeneratorReturns(list) == [raises |-> FALSE, out |-> list]

RECURSIVE StripLabels(_, _, _)
\* extract.py:28-30 and 87-89: the loop over the labels from entry k on; it has
\* no break, so every label is tried on what the earlier ones left
StripLabels(s, labels, k) ==
    IF k > Len(labels) THEN s
    ELSE StripLabels(IF StartsWith(s, labels[k]) THEN Strip(Drop(s, Len(labels[k]))) ELSE s,
                     labels, k + 1)

\* extract.py:28: 'Output:', 'Answer:', 'Question:', 'Core question:'
core_labels ==
    << <<"O", "u", "t", "p", "u", "t", ":">>,
       <<"A", "n", "s", "w", "e", "r", ":">>,
       <<"Q", "u", "e", "s", "t", "i", "o", "n", ":">>,
       <<"C", "o", "r", "e", " ", "q", "u", "e", "s", "t", "i", "o", "n", ":">> >>

\* extract.py:87: 'Output:', 'Keywords:', 'Entities:'
entity_labels ==
    << <<"O", "u", "t", "p", "u", "t", ":">>,
       <<"K", "e", "y", "w", "o", "r", "d", "s", ":">>,
       <<"E", "n", "t", "i", "t", "i", "e", "s", ":">> >>

\* extract.py:38-41: the last non-empty sentence of the text
LastSentence(text) ==
    LET sentences == StripAndKeep(SplitAny(text, {".", "?", "!"}))
    IN  IF sentences # <<>> THEN sentences[Len(sentences)] ELSE text

\* the reply kept however short it is
extract_question_with_llm_unvalidated(text, generator) ==
    IF Len(text) < 20 THEN text
    ELSE IF generator.raises \/ generator.out = <<>> THEN LastSentence(text)
    ELSE Strip(RStrip(StripLabels(Strip(generator.out[1]), core_labels, 1), {"?", "."}))

\* extract.py:3-41.  An empty result skips the if and falls to the fallback; an
\* exception and the ValueError of a short result are swallowed by the except.
extract_question_with_llm(text, generator) ==
    IF Len(text) < 20 THEN text
    ELSE IF generator.raises \/ generator.out = <<>> THEN LastSentence(text)
    ELSE LET core_q ==
                 Strip(RStrip(StripLabels(Strip(generator.out[1]), core_labels, 1),
                              {"?", "."}))
         IN  IF Len(core_q) < 3 THEN LastSentence(text) ELSE core_q

\* the fallback without its caps of 6 words and 3 numbers
FallbackKeywords_uncapped(text) ==
    LET keywords == LetterWords(text, 2, 15) \o Runs(text, Digits)
    IN  IF keywords # <<>> THEN Take(keywords, 10) ELSE <<Take(text, 30)>>

\* extract.py:97-103
FallbackKeywords(text) ==
    LET words    == LetterWords(text, 2, 15)
        numbers  == Runs(text, Digits)
        keywords == Take(words, 6) \o Take(numbers, 3)
    IN  IF keywords # <<>> THEN Take(keywords, 10) ELSE <<Take(text, 30)>>

\* extract.py:44-103
extract_core_entities(text, generator) ==
    IF Len(text) < 10 THEN <<text>>
    ELSE IF generator.raises \/ generator.out = <<>> THEN FallbackKeywords(text)
    ELSE LET entities_str == StripLabels(Strip(generator.out[1]), entity_labels, 1)
             tokens       == SplitRuns(entities_str, {","} \cup Whitespace)
             kept         == SelectSeq(tokens, LAMBDA e : Strip(e) # <<>> /\ Len(e) > 1)
         IN  Take([k \in 1..Len(kept) |-> Strip(kept[k])], 10)

\* the full-width comma, U+FF0C
FullWidthComma == "U+FF0C"

\* extract.py:110, a text shorter than this is returned as it is
MinQueryTextLen == 10

NormalizeCommas_none(raw_output) == raw_output

\* extract.py:154
NormalizeCommas(raw_output) == Replace(raw_output, FullWidthComma, ",")

\* extract.py:107-167.  result[0] of an empty list raises IndexError inside the
\* try, which the except clause turns into [text] like any generator failure.
extract_core_querys(text, generator) ==
    IF Len(text) < MinQueryTextLen THEN <<text>>
    ELSE IF generator.raises \/ generator.out = <<>> THEN <<text>>
    ELSE LET raw_output == NormalizeCommas(Strip(generator.out[1]))
         IN  StripAndKeep(Split(raw_output, ","))

\* extract.py:179: the characters 。 ！ ？ and newline
SentenceEnds == {"U+3002", "U+FF01", "U+FF1F", "\n"}

\* extract.py:179-180
SentencesOf(doc) ==
    LET sentences == SplitRuns(doc, SentenceEnds)
    IN  SelectSeq([k \in 1..Len(sentences) |-> Strip(sentences[k])],
                  LAMBDA s : Len(s) > 10)

RECURSIVE AllSentences(_)
\* extract.py:177-181
AllSentences(documents) ==
    IF documents = <<>> THEN <<>>
    ELSE SentencesOf(Head(documents)) \o AllSentences(Tail(documents))

\* extract.py:186 and 190
KeywordSet(s) == Range(LetterWords(Lower(s), 2, Len(s)))

RECURSIVE SortByScore_unstable(_)
\* a sort that puts an element before the elements of its own score
SortByScore_unstable(scored) ==
    IF scored = <<>> THEN <<>>
    ELSE LET front  == SortByScore_unstable(SubSeq(scored, 1, Len(scored) - 1))
             x      == scored[Len(scored)]
             n      == Cardinality({k \in 1..Len(front) : front[k].score > x.score})
         IN  SubSeq(front, 1, n) \o <<x>> \o SubSeq(front, n + 1, Len(front))

RECURSIVE SortByScore(_)
\* extract.py:194: list.sort by score, reverse=True, is stable: an element goes
\* behind every element of at least its score that came before it
SortByScore(scored) ==
    IF scored = <<>> THEN <<>>
    ELSE LET front  == SortByScore(SubSeq(scored, 1, Len(scored) - 1))
             x      == scored[Len(scored)]
             n      == Cardinality({k \in 1..Len(front) : front[k].score >= x.score})
         IN  SubSeq(front, 1, n) \o <<x>> \o SubSeq(front, n + 1, Len(front))

\* extract.py:172-200
extract_relevant_sentences(documents, question, max_sentences) ==
    IF documents = <<>> THEN <<>>
    ELSE LET all_sentences == AllSentences(documents)
         IN  IF all_sentences = <<>> THEN Take(documents[1], 200)
             ELSE LET question_keywords == KeywordSet(question)
                      first50 == Take(all_sentences, 50)
                      sentence_scores ==
                          [k \in 1..Len(first50) |->
                              [score |-> Cardinality(question_keywords
                                                       \cap KeywordSet(first50[k])),
                               sent  |-> first50[k]]]
                      sorted == SortByScore(sentence_scores)
                      top == SelectSeq(Take(sorted, max_sentences),
                                       LAMBDA x : x.score > 0)
                  IN  IF top = <<>> THEN Join(Take(all_sentences, 2), <<"\n">>)
                      ELSE Join([k \in 1..Len(top) |-> top[k].sent], <<"\n">>)

-----------------------------------------------------------------------------
(* mian.py: main().  The model starts where the input list is loaded, the
   output file is open and process_logs is empty (mian.py:57-66).  A trace
   entry is kept as the id and the final answer of its question; a local that
   nothing reads again is cleared. *)

\* mian.py:215, "错误"
ErrorMarker == <<"U+9519", "U+8BEF">>

\* mian.py:211, "生成失败"
FailedMarker == <<"U+751F", "U+6210", "U+5931", "U+8D25">>

\* mian.py:197, "according", "based on", "information", "reference"
bad_words ==
    << <<"a", "c", "c", "o", "r", "d", "i", "n", "g">>,
       <<"b", "a", "s", "e", "d", " ", "o", "n">>,
       <<"i", "n", "f", "o", "r", "m", "a", "t", "i", "o", "n">>,
       <<"r", "e", "f", "e", "r", "e", "n", "c", "e">> >>

\* generator.generate has not been called
NotCalled == [raises |-> FALSE, out |-> <<>>]

NoItem == [id |-> <<>>, output_field |-> <<>>]

\* mian.py:69
IsValid(q) == q.is_dict /\ q.has_input

\* mian.py:72, q.get("id", f"q_{i}") with Python's i counted from 0
question_id(k) ==
    IF questions[k].has_id THEN questions[k].id ELSE <<"q", "_">> \o Decimal(k - 1)

\* mian.py:73
question_text == questions[i].input_field

\* the check without its list of leaked words
NeedsRetry_short(answer) == Len(answer) < 2

\* mian.py:197
NeedsRetry(answer) ==
    Len(answer) < 2 \/ \E k \in 1..Len(bad_words) : HasSub(answer, bad_words[k])

RECURSIVE Aggregate(_)
\* mian.py:119-135, on the references the loop is given
Aggregate(references) ==
    IF references = <<>> THEN <<>>
    ELSE LET ref == Head(references)
         IN  (IF ref.title # <<>> THEN <<ref.title>> ELSE <<>>)
                 \o (IF ref.content # <<>> THEN <<ref.content>> ELSE <<>>)
                 \o Aggregate(Tail(references))

\* mian.py:116-143
Documents(search_result) == Aggregate(Take(search_result.references, 5))

\* a remote call made while question i is processed
Called(op) == Append(calls, [op |-> op, q |-> i, flushed |-> flushed])

\* the generator.generate calls of extract.py:24 and extract.py:83 are made
\* unless the text is short (extract.py:5 and 47)
CoreQuestionCalls(text) == IF Len(text) < 20 THEN calls ELSE Called("generate:core_question")

EntitiesCalls(text) == IF Len(text) < 10 THEN calls ELSE Called("generate:entities")

(* the collaborators' behaviours *)

\* 'A band from Kobe. Who sings?' (28)
LongText ==
    <<"A", " ", "b", "a", "n", "d", " ", "f", "r", "o", "m", " ", "K", "o",
      "b", "e", ".", " ", "W", "h", "o", " ", "s", "i", "n", "g", "s", "?">>

\* 'Who is X?' (9)
ShortText == <<"W", "h", "o", " ", "i", "s", " ", "X", "?">>

\* 'Output: Who sings?'
CoreReply ==
    <<"O", "u", "t", "p", "u", "t", ":", " ", "W", "h", "o", " ", "s", "i",
      "n", "g", "s", "?">>

\* 'Keywords: Kobe, band'
KeywordReply ==
    <<"K", "e", "y", "w", "o", "r", "d", "s", ":", " ", "K", "o", "b", "e",
      ",", " ", "b", "a", "n", "d">>

\* 'Kobe band'
RefTitle == <<"K", "o", "b", "e", " ", "b", "a", "n", "d">>

\* 'The band from Kobe has one singer。Tokyo is a city in Japan'
RefContent ==
    <<"T", "h", "e", " ", "b", "a", "n", "d", " ", "f", "r", "o", "m", " ",
      "K", "o", "b", "e", " ", "h", "a", "s", " ", "o", "n", "e", " ", "s",
      "i", "n", "g", "e", "r", "U+3002", "T", "o", "k", "y", "o", " ", "i",
      "s", " ", "a", " ", "c", "i", "t", "y", " ", "i", "n", " ", "J", "a",
      "p", "a", "n">>

\* 'Paris'
AnswerParis == <<"P", "a", "r", "i", "s">>

\* 'Answer: Ringo Sheena.'
AnswerRingo ==
    <<"A", "n", "s", "w", "e", "r", ":", " ", "R", "i", "n", "g", "o", " ",
      "S", "h", "e", "e", "n", "a", ".">>

\* 'based on the reference'
AnswerLeak ==
    <<"b", "a", "s", "e", "d", " ", "o", "n", " ", "t", "h", "e", " ", "r",
      "e", "f", "e", "r", "e", "n", "c", "e">>

\* ' The Kyoto\n'
AnswerPadded == <<" ", "T", "h", "e", " ", "K", "y", "o", "t", "o", "\n">>

\* 'Outstanding Young Talent Award of the Year' (42)
AnswerLong ==
    <<"O", "u", "t", "s", "t", "a", "n", "d", "i", "n", "g", " ", "Y", "o", "u", "n", "g", " ",
      "T", "a", "l", "e", "n", "t", " ", "A", "w", "a", "r", "d",
      " ", "o", "f", " ", "t", "h", "e", " ", "Y", "e", "a", "r">>

\* the replies to the core-question prompt: a labelled question, and one too
\* short to be kept
CoreGenerators ==
    {GeneratorRaises, GeneratorReturns(<<>>),
     GeneratorReturns(<<CoreReply>>), GeneratorReturns(<<<<"?">>>>)}

\* the replies to the keyword prompt: labelled keywords, and tokens too short
\* to be kept
EntityGenerators ==
    {GeneratorRaises, GeneratorReturns(<<>>),
     GeneratorReturns(<<KeywordReply>>), GeneratorReturns(<<<<"a", " ", "b">>>>)}

\* the replies to the answer prompt and to the retry prompt
AnswerGenerators ==
    {GeneratorRaises, GeneratorReturns(<<>>)}
        \cup {GeneratorReturns(<<a>>) :
                a \in {AnswerParis, AnswerRingo, AnswerLeak, AnswerPadded, AnswerLong,
                      <<"x">>, <<>>}}

Reference == [title |-> RefTitle, content |-> RefContent, url |-> <<"u">>]

\* GoogleSearchClient.py:100-136: web_search returns the references it found,
\* and an empty list when the request fails
SearchResults ==
    { [references |-> <<>>],
      [references |-> <<Reference>>],
      [references |-> <<[Reference EXCEPT !.title = <<>>], Reference, Reference,
                        Reference, Reference, Reference>>] }

\* the question texts of the items
QuestionTexts == {LongText, ShortText}

\* mian.py:89: the calls of extract_question_with_llm on a question text, one
\* for each behaviour of the generator
CoreQuestionExtractions ==
    {[text |-> text, generator |-> generator,
      returns |-> extract_question_with_llm(text, generator)] :
        text \in QuestionTexts, generator \in CoreGenerators}

\* mian.py:95: the calls of extract_core_entities on a question text
EntityExtractions ==
    {[text |-> text, generator |-> generator,
      returns |-> extract_core_entities(text, generator)] :
        text \in QuestionTexts, generator \in EntityGenerators}

ItemLong ==
    [is_dict |-> TRUE, has_id |-> TRUE, id |-> <<"a">>,
     has_input |-> TRUE, input_field |-> LongText]

ItemShort ==
    [is_dict |-> TRUE, has_id |-> FALSE, id |-> <<>>,
     has_input |-> TRUE, input_field |-> ShortText]

\* an object without input_field
ItemNoInput ==
    [is_dict |-> TRUE, has_id |-> TRUE, id |-> <<"b">>,
     has_input |-> FALSE, input_field |-> <<>>]

\* an entry that is not an object
ItemNotDict ==
    [is_dict |-> FALSE, has_id |-> FALSE, id |-> <<>>,
     has_input |-> FALSE, input_field |-> <<>>]

MaxQuestions == 2

QuestionLists == SeqsUpTo({ItemLong, ItemShort, ItemNoInput, ItemNotDict}, MaxQuestions)

\* the pure-function harness is not in use
HarnessIdle == call = [fn |-> "none"] /\ ret = <<>>

LocalsCleared ==
    /\ core_question = <<>>
    /\ entities = <<>>
    /\ search_query = <<>>
    /\ relevant_context = <<>>
    /\ answer_list = NotCalled
    /\ answer_text = <<>>
    /\ retry = NotCalled
    /\ result_item = NoItem
    /\ calls = <<>>

\* mian.py:57-66
Init ==
    /\ questions \in QuestionLists
    /\ i = 1
    /\ pc = "loop"
    /\ LocalsCleared
    /\ f_out = <<>>
    /\ flushed = 0
    /\ process_logs = <<>>
    /\ log_file = <<>>
    /\ HarnessIdle

\* break in the place of continue
SkipItem_break ==
    /\ pc = "loop"
    /\ i <= Len(questions)
    /\ ~IsValid(questions[i])
    /\ i' = Len(questions) + 1
    /\ UNCHANGED <<questions, pc, core_question, entities, search_query,
                   relevant_context, answer_list, answer_text, retry, result_item,
                   f_out, flushed, process_logs, log_file, calls, call, ret>>

\* mian.py:68-70: an item that is no object, or has no input_field, is passed over
SkipItem ==
    /\ pc = "loop"
    /\ i <= Len(questions)
    /\ ~IsValid(questions[i])
    /\ i' = i + 1
    /\ UNCHANGED <<questions, pc, core_question, entities, search_query,
                   relevant_context, answer_list, answer_text, retry, result_item,
                   f_out, flushed, process_logs, log_file, calls, call, ret>>

\* mian.py:72-92
ExtractCoreQuestion ==
    /\ pc = "loop"
    /\ i <= Len(questions)
    /\ IsValid(questions[i])
    /\ \E extraction \in CoreQuestionExtractions :
          /\ extraction.text = question_text
          /\ core_question' = extraction.returns
    /\ calls' = CoreQuestionCalls(question_text)
    /\ pc' = "entities"
    /\ UNCHANGED <<questions, i, entities, search_query, relevant_context,
                   answer_list, answer_text, retry, result_item, f_out, flushed,
                   process_logs, log_file, call, ret>>

\* the search query joined from the keywords also when there are none
ExtractEntities_nofallback ==
    /\ pc = "entities"
    /\ \E extraction \in EntityExtractions :
          /\ extraction.text = question_text
          /\ entities' = extraction.returns
          /\ search_query' = Join(extraction.returns, <<" ">>)
    /\ calls' = EntitiesCalls(question_text)
    /\ pc' = "search"
    /\ UNCHANGED <<questions, i, core_question, relevant_context, answer_list,
                   answer_text, retry, result_item, f_out, flushed, process_logs,
                   log_file, call, ret>>

\* mian.py:94-100
ExtractEntities ==
    /\ pc = "entities"
    /\ \E extraction \in EntityExtractions :
          /\ extraction.text = question_text
          /\ entities' = extraction.returns
          /\ search_query' = IF extraction.returns # <<>>
                              THEN Join(extraction.returns, <<" ">>)
                              ELSE core_question
    /\ calls' = EntitiesCalls(question_text)
    /\ pc' = "search"
    /\ UNCHANGED <<questions, i, core_question, relevant_context, answer_list,
                   answer_text, retry, result_item, f_out, flushed, process_logs,
                   log_file, call, ret>>

\* mian.py:102-151: the search with search_query, the documents of its first
\* five references, and the sentences extracted from them
Search ==
    /\ pc = "search"
    /\ \E search_result \in SearchResults :
          relevant_context' =
              extract_relevant_sentences(Documents(search_result), question_text, 2)
    /\ calls' = Called("web_search")
    /\ entities' = <<>>
    /\ search_query' = <<>>
    /\ pc' = "generate"
    /\ UNCHANGED <<questions, i, core_question, answer_list, answer_text, retry,
                   result_item, f_out, flushed, process_logs, log_file, call, ret>>

\* an empty first result persisted as an empty answer, with no marker
AnswerOutcome_nomarker(generator) ==
    IF generator.raises
    THEN [answer_text |-> <<>>, output_field |-> ErrorMarker, pc |-> "persist"]
    ELSE IF generator.out = <<>>
    THEN [answer_text |-> <<>>, output_field |-> <<>>, pc |-> "persist"]
    ELSE LET cleaned == clean_answer_aggressive(Strip(generator.out[1]))
         IN  IF NeedsRetry(cleaned)
             THEN [answer_text |-> cleaned, output_field |-> <<>>, pc |-> "retry"]
             ELSE [answer_text |-> cleaned, output_field |-> cleaned, pc |-> "persist"]

\* the first answer persisted as the generator returned it, stripped only
AnswerOutcome_uncleaned(generator) ==
    IF generator.raises
    THEN [answer_text |-> <<>>, output_field |-> ErrorMarker, pc |-> "persist"]
    ELSE IF generator.out = <<>>
    THEN [answer_text |-> <<>>, output_field |-> FailedMarker, pc |-> "persist"]
    ELSE LET cleaned == Strip(generator.out[1])
         IN  IF NeedsRetry(cleaned)
             THEN [answer_text |-> cleaned, output_field |-> <<>>, pc |-> "retry"]
             ELSE [answer_text |-> cleaned, output_field |-> cleaned, pc |-> "persist"]

\* mian.py:186-217, up to the retry call: the answer text, the output_field and
\* where main() goes after the first generation call
AnswerOutcome(generator) ==
    IF generator.raises
    THEN [answer_text |-> <<>>, output_field |-> ErrorMarker, pc |-> "persist"]
    ELSE IF generator.out = <<>>
    THEN [answer_text |-> <<>>, output_field |-> FailedMarker, pc |-> "persist"]
    ELSE LET cleaned == clean_answer_aggressive(Strip(generator.out[1]))
         IN  IF NeedsRetry(cleaned)
             THEN [answer_text |-> cleaned, output_field |-> <<>>, pc |-> "retry"]
             ELSE [answer_text |-> cleaned, output_field |-> cleaned, pc |-> "persist"]

\* mian.py:183-195 and 207-217: the first generation call, up to the retry
\* call when the cleaned answer needs one
GenerateAnswer ==
    /\ pc = "generate"
    /\ \E generator \in AnswerGenerators :
          /\ answer_list' = generator
          /\ answer_text' = AnswerOutcome(generator).answer_text
          /\ result_item' = [id |-> question_id(i),
                             output_field |-> AnswerOutcome(generator).output_field]
          /\ pc' = AnswerOutcome(generator).pc
    /\ calls' = Called("generate:answer")
    /\ core_question' = IF pc' = "retry" THEN core_question ELSE <<>>
    /\ relevant_context' = IF pc' = "retry" THEN relevant_context ELSE <<>>
    /\ UNCHANGED <<questions, i, entities, search_query, retry, f_out, flushed,
                   process_logs, log_file, call, ret>>

\* the retry call outside the try block: its exception ends main()
RetryOutcome_uncaught(generator, first) ==
    IF generator.raises
    THEN [answer_text |-> first, output_field |-> <<>>, pc |-> "crashed"]
    ELSE IF generator.out = <<>>
    THEN [answer_text |-> first, output_field |-> first, pc |-> "persist"]
    ELSE LET cleaned == clean_answer_aggressive(generator.out[1])
         IN  [answer_text |-> cleaned, output_field |-> cleaned, pc |-> "persist"]

\* the retry answer adopted only when it passes the check the first one failed
RetryOutcome_validated(generator, first) ==
    IF generator.raises
    THEN [answer_text |-> first, output_field |-> ErrorMarker, pc |-> "persist"]
    ELSE IF generator.out = <<>>
    THEN [answer_text |-> first, output_field |-> first, pc |-> "persist"]
    ELSE LET cleaned == clean_answer_aggressive(generator.out[1])
         IN  IF NeedsRetry(cleaned)
             THEN [answer_text |-> first, output_field |-> first, pc |-> "persist"]
             ELSE [answer_text |-> cleaned, output_field |-> cleaned, pc |-> "persist"]

\* mian.py:200-217: the answer text, the output_field and where main() goes
\* after the retry call; first is the first cleaned answer.  The retry result
\* is cleaned as it is returned (mian.py:203 has no strip()).
RetryOutcome(generator, first) ==
    IF generator.raises
    THEN [answer_text |-> first, output_field |-> ErrorMarker, pc |-> "persist"]
    ELSE IF generator.out = <<>>
    THEN [answer_text |-> first, output_field |-> first, pc |-> "persist"]
    ELSE LET cleaned == clean_answer_aggressive(generator.out[1])
         IN  [answer_text |-> cleaned, output_field |-> cleaned, pc |-> "persist"]

\* mian.py:198-217: the retry call and what is made of it
RetryGenerate ==
    /\ pc = "retry"
    /\ \E generator \in AnswerGenerators :
          /\ retry' = generator
          /\ answer_text' = RetryOutcome(generator, answer_text).answer_text
          /\ result_item' = [result_item EXCEPT
                                !.output_field =
                                    RetryOutcome(generator, answer_text).output_field]
          /\ pc' = RetryOutcome(generator, answer_text).pc
    /\ calls' = Called("generate:retry")
    /\ core_question' = <<>>
    /\ relevant_context' = <<>>
    /\ UNCHANGED <<questions, i, entities, search_query, answer_list, f_out,
                   flushed, process_logs, log_file, call, ret>>

\* the record written but left in the buffer of the file object
Persist_noflush ==
    /\ pc = "persist"
    /\ process_logs' = Append(process_logs,
                              [id |-> result_item.id, final |-> result_item.output_field])
    /\ f_out' = Append(f_out, result_item)
    /\ i' = i + 1
    /\ pc' = "loop"
    /\ core_question' = <<>>
    /\ entities' = <<>>
    /\ search_query' = <<>>
    /\ relevant_context' = <<>>
    /\ answer_list' = NotCalled
    /\ answer_text' = <<>>
    /\ retry' = NotCalled
    /\ result_item' = NoItem
    /\ calls' = <<>>
    /\ UNCHANGED <<questions, flushed, log_file, call, ret>>

\* the trace log dumped inside the loop, after every question
Persist_dumps ==
    /\ pc = "persist"
    /\ process_logs' = Append(process_logs,
                              [id |-> result_item.id, final |-> result_item.output_field])
    /\ log_file' = Append(log_file, process_logs')
    /\ f_out' = Append(f_out, result_item)
    /\ flushed' = Len(f_out')
    /\ i' = i + 1
    /\ pc' = "loop"
    /\ core_question' = <<>>
    /\ entities' = <<>>
    /\ search_query' = <<>>
    /\ relevant_context' = <<>>
    /\ answer_list' = NotCalled
    /\ answer_text' = <<>>
    /\ retry' = NotCalled
    /\ result_item' = NoItem
    /\ calls' = <<>>
    /\ UNCHANGED <<questions, call, ret>>

\* mian.py:219-233: the trace entry, the output record and its flush
Persist ==
    /\ pc = "persist"
    /\ process_logs' = Append(process_logs,
                              [id |-> result_item.id, final |-> result_item.output_field])
    /\ f_out' = Append(f_out, result_item)
    /\ flushed' = Len(f_out')
    /\ i' = i + 1
    /\ pc' = "loop"
    /\ core_question' = <<>>
    /\ entities' = <<>>
    /\ search_query' = <<>>
    /\ relevant_context' = <<>>
    /\ answer_list' = NotCalled
    /\ answer_text' = <<>>
    /\ retry' = NotCalled
    /\ result_item' = NoItem
    /\ calls' = <<>>
    /\ UNCHANGED <<questions, log_file, call, ret>>

\* mian.py:66 and 235-237: the loop is over, the output file is closed and the
\* trace log is dumped
WriteLog ==
    /\ pc = "loop"
    /\ i > Len(questions)
    /\ flushed' = Len(f_out)
    /\ log_file' = Append(log_file, process_logs)
    /\ pc' = "done"
    /\ UNCHANGED <<questions, i, core_question, entities, search_query,
                   relevant_context, answer_list, answer_text, retry, result_item,
                   f_out, process_logs, calls, call, ret>>

Next ==
    \/ SkipItem
    \/ ExtractCoreQuestion
    \/ ExtractEntities
    \/ Search
    \/ GenerateAnswer
    \/ RetryGenerate
    \/ Persist
    \/ WriteLog

Spec == Init /\ [][Next]_vars

\* main() is one thread that runs on until it returns
FairSpec == Spec /\ WF_vars(Next)

-----------------------------------------------------------------------------
(* The claims about main() *)

RECURSIVE ValidIds(_)
\* the ids of the valid items among the first n items, in input order
ValidIds(n) ==
    IF n <= 0 THEN <<>>
    ELSE ValidIds(n - 1) \o (IF IsValid(questions[n]) THEN <<question_id(n)>> ELSE <<>>)

IdsOf(records) == [k \in 1..Len(records) |-> records[k].id]

RetryCalls == Cardinality({k \in 1..Len(calls) : calls[k].op = "generate:retry"})

FirstReturned == ~answer_list.raises /\ answer_list.out # <<>>

FirstCleaned == clean_answer_aggressive(Strip(answer_list.out[1]))

RetryReturned == RetryCalls = 1 /\ ~retry.raises /\ retry.out # <<>>

\* the check of the claim C2, spelled out
FailsCheck(answer) ==
    \/ Len(answer) < 2
    \/ HasSub(answer, <<"a", "c", "c", "o", "r", "d", "i", "n", "g">>)
    \/ HasSub(answer, <<"b", "a", "s", "e", "d", " ", "o", "n">>)
    \/ HasSub(answer, <<"i", "n", "f", "o", "r", "m", "a", "t", "i", "o", "n">>)
    \/ HasSub(answer, <<"r", "e", "f", "e", "r", "e", "n", "c", "e">>)

(* C1: whatever the search and the generator do in any of their calls, main()
   reaches its end having written exactly one output record for every valid
   input item, in input order. *)
C1_RunCompletes ==
    <>(/\ pc = "done"
       /\ IdsOf(f_out) = ValidIds(Len(questions))
       /\ flushed = Len(f_out))

\* the run ended although the generator raised for one question and returned
\* nothing for the other
C1_Witness ==
    /\ pc = "done"
    /\ Len(f_out) = 2
    /\ f_out[1].output_field = <<"U+9519", "U+8BEF">>
    /\ f_out[2].output_field = <<"U+751F", "U+6210", "U+5931", "U+8D25">>

(* C2: the retry request is issued if and only if the first generation
   returned a result whose cleaned answer is shorter than 2 or holds one of
   "according", "based on", "information", "reference"; at most one retry
   request is issued per question, also when the retry answer fails the check. *)
C2_RetryIffCheckFails ==
    /\ RetryCalls <= 1
    /\ pc = "persist" => (RetryCalls = 1 <=> (FirstReturned /\ FailsCheck(FirstCleaned)))

\* one retry was made, its cleaned answer fails the check again, and main() is
\* about to persist it
C2_Witness ==
    /\ pc = "persist"
    /\ RetryReturned
    /\ FailsCheck(result_item.output_field)

(* C3 as claimed: whenever the retry is issued, the persisted output_field is
   clean_answer_aggressive of the retry result. *)
C3_RetryResultPersisted ==
    (pc = "persist" /\ RetryCalls = 1) =>
        /\ ~retry.raises
        /\ retry.out # <<>>
        /\ result_item.output_field = clean_answer_aggressive(retry.out[1])

(* C3 amended: whenever the retry is issued and returns a result, the persisted
   output_field is clean_answer_aggressive of the retry result, adopted without
   further validation; when the retry returns an empty list the first cleaned
   answer is persisted, and when it raises the marker "错误" is. *)
C3_RetryOutcomePersisted ==
    (pc = "persist" /\ RetryCalls = 1) =>
        /\ RetryReturned =>
               result_item.output_field = clean_answer_aggressive(retry.out[1])
        /\ (~retry.raises /\ retry.out = <<>>) =>
               result_item.output_field = FirstCleaned
        /\ retry.raises => result_item.output_field = <<"U+9519", "U+8BEF">>

\* a retry answer that fails the check was adopted in the place of the first
C3_Witness ==
    /\ pc = "persist"
    /\ RetryReturned
    /\ result_item.output_field = clean_answer_aggressive(retry.out[1])
    /\ FailsCheck(result_item.output_field)
    /\ result_item.output_field # FirstCleaned

IsMarker(field) ==
    field \in {<<"U+9519", "U+8BEF">>, <<"U+751F", "U+6210", "U+5931", "U+8D25">>}

\* the step that persists the current question: the record with this
\* output_field is written, and main() goes on to the next item
PersistedAs(field) ==
    /\ f_out' = Append(f_out, [id |-> question_id(i), output_field |-> field])
    /\ flushed' = Len(f_out')
    /\ i' = i + 1
    /\ pc' = "loop"

(* C4 as claimed: when the first request or the retry raises, or the generator
   returns no output in either request, the persisted output_field is one of
   the markers "错误" and "生成失败", the record is written and the run goes on. *)
C4_FailureGivesMarker ==
    [][(/\ pc = "persist"
        /\ \/ answer_list.raises
           \/ answer_list.out = <<>>
           \/ (RetryCalls = 1 /\ (retry.raises \/ retry.out = <<>>)))
       => (IsMarker(result_item.output_field) /\ PersistedAs(result_item.output_field))]_vars

(* C4 amended: when the first request raises or returns no output, or the
   retry raises, the persisted output_field is "错误" (a raise) or "生成失败"
   (no output of the first request), the record is written and the run goes on
   to the next question; when the retry returns no output, the first cleaned
   answer is persisted and no marker. *)
C4_RaiseOrNoFirstOutputGivesMarker ==
    [][(pc = "persist") =>
        /\ (answer_list.raises \/ (RetryCalls = 1 /\ retry.raises))
               => PersistedAs(<<"U+9519", "U+8BEF">>)
        /\ (~answer_list.raises /\ answer_list.out = <<>>)
               => PersistedAs(<<"U+751F", "U+6210", "U+5931", "U+8D25">>)
        /\ (RetryCalls = 1 /\ ~retry.raises /\ retry.out = <<>>)
               => PersistedAs(FirstCleaned)]_vars

\* the record of a failed generation is in the output and the second question
\* is being processed
C4_Witness ==
    /\ Len(f_out) = 1
    /\ IsMarker(f_out[1].output_field)
    /\ i = 2
    /\ pc = "generate"

(* C5: the output record of a question is written and flushed before any
   generator or search call for the next question; at every point of the run
   the output stream holds exactly the records of the valid questions already
   fully processed. *)
C5_SequentialFlushed ==
    pc # "idle" =>
        /\ IdsOf(SubSeq(f_out, 1, flushed)) = ValidIds(i - 1)
        /\ flushed = Len(f_out)
        /\ \A k \in 1..Len(calls) :
              /\ calls[k].q = i
              /\ calls[k].flushed = Len(ValidIds(i - 1))

\* the remote calls of the second question are made with the record of the
\* first one flushed
C5_Witness ==
    /\ i = 2
    /\ pc = "generate"
    /\ Len(calls) >= 1
    /\ flushed = 1

(* C6: the trace log is written exactly once, after the last question has been
   processed and its record written; it then holds one entry per processed
   question, in input order, as many as there are output records.  Nothing of
   it is persisted before. *)
C6_TraceLogOnceAtEnd ==
    pc # "idle" =>
        /\ pc # "done" => log_file = <<>>
        /\ pc = "done" =>
              /\ Len(log_file) = 1
              /\ IdsOf(log_file[1]) = ValidIds(Len(questions))
              /\ Len(log_file[1]) = Len(f_out)
              /\ i > Len(questions)

\* the trace log of a run over two valid questions
C6_Witness == pc = "done" /\ Len(log_file) = 1 /\ Len(log_file[1]) = 2

(* C7: an input item that is not an object or lacks input_field is skipped: no
   generator call, no search call, no output record and no trace entry are made
   for it, and the items after it are processed normally. *)
C7_InvalidItemSkipped ==
    /\ [][(pc = "loop" /\ i <= Len(questions) /\ ~IsValid(questions[i])) =>
            /\ i' = i + 1
            /\ pc' = "loop"
            /\ UNCHANGED <<calls, f_out, flushed, process_logs, log_file>>]_vars
    /\ [](pc = "done" => IdsOf(f_out) = ValidIds(Len(questions)))

\* the run skipped an invalid first item and persisted the valid second one
C7_Witness ==
    /\ pc = "done"
    /\ Len(questions) = 2
    /\ ~IsValid(questions[1])
    /\ IsValid(questions[2])
    /\ IdsOf(f_out) = <<question_id(2)>>


OpsOf(log) == [k \in 1..Len(log) |-> log[k].op]

\* the generator calls the routines of extract.py make for a text: none for a
\* text shorter than 10, and no core-question call for one shorter than 20
DecomposeOps(text) ==
    (IF Len(text) < 20 THEN <<>> ELSE <<"generate:core_question">>)
        \o (IF Len(text) < 10 THEN <<>> ELSE <<"generate:entities">>)

\* the search query is the keywords joined by spaces, or the core question
\* when there is no keyword
QueryFromKeywords ==
    search_query = IF entities # <<>> THEN Join(entities, <<" ">>) ELSE core_question

(* C14 as claimed: before the search of a question the pipeline has run the
   three decomposition routines, so for a text of 20 or more characters the
   generator was asked for the core question, the keywords and the
   sub-queries; the search query is the keywords joined by spaces, or the core
   question when the keyword sequence is empty. *)
C14_ThreeRoutinesBeforeSearch ==
    pc = "search" =>
        /\ Len(question_text) >= 20 =>
              Range(OpsOf(calls)) = {"generate:core_question", "generate:entities",
                                     "generate:core_querys"}
        /\ QueryFromKeywords

(* C14 amended: before the search of a question the pipeline has run the
   core-question extraction and then the keyword extraction, and no sub-query
   decomposition; the search query is the keywords joined by spaces, or the
   core question when the keyword sequence is empty; the search is called
   after both. *)
C14_TwoRoutinesBeforeSearch ==
    /\ pc = "search" =>
          /\ OpsOf(calls) = DecomposeOps(question_text)
          /\ \E generator \in CoreGenerators :
                core_question = extract_question_with_llm(question_text, generator)
          /\ \E generator \in EntityGenerators :
                entities = extract_core_entities(question_text, generator)
          /\ QueryFromKeywords
    /\ pc \in {"generate", "retry", "persist"} =>
          SubSeq(OpsOf(calls), 1, Len(DecomposeOps(question_text)) + 1)
              = DecomposeOps(question_text) \o <<"web_search">>

\* the keywords of a long question came back empty and the core question is
\* the search query
C14_Witness ==
    /\ pc = "search"
    /\ Len(question_text) >= 20
    /\ entities = <<>>
    /\ search_query = core_question
    /\ search_query # <<>>

(* C16: for every processed question and every outcome of the generator and
   the search, the output_field of the persisted record has length at most 30:
   it is a result of clean_answer_aggressive or one of the two markers. *)
C16_OutputFieldAtMost30 ==
    /\ \A k \in 1..Len(f_out) : Len(f_out[k].output_field) <= 30
    /\ pc = "persist" =>
          /\ Len(result_item.output_field) <= 30
          /\ \/ IsMarker(result_item.output_field)
             \/ FirstReturned /\ result_item.output_field = FirstCleaned
             \/ RetryReturned
                  /\ result_item.output_field = clean_answer_aggressive(retry.out[1])

\* an answer of more than 30 characters is in the output with 30
C16_Witness ==
    /\ Len(f_out) = 1
    /\ Len(f_out[1].output_field) = 30
    /\ f_out[1].output_field = Take(AnswerLong, 30)

-----------------------------------------------------------------------------
(* The pure functions are checked on inputs drawn from bounded sets: a text
   is a concatenation of at most MaxPieces pieces. *)

MaxPieces == 3

CleanPieces ==
    { <<"T", "h", "e">>,
      <<"A", "n", "s", "w", "e", "r", ":">>,
      <<"I", "t", " ", "i", "s">>,
      <<"P", "a", "r", "i", "s">>,
      <<"W", "a", "s", "h", "i", "n", "g", "t", "o", "n", " ", "D", ".", "C">>,
      <<"!", "!", "!", "!", "!", "!", "!", "!", "!", "!", "!">>,
      <<"a", "b">>,
      <<" ">>, <<":">>, <<",">>, <<".">>, <<"!">>, <<"\"">> }

CleanInputs == {Concat(ps) : ps \in SeqsUpTo(CleanPieces, MaxPieces)}

\* main() is not running
PipelineIdle ==
    /\ questions = <<>>
    /\ i = 0
    /\ pc = "idle"
    /\ LocalsCleared
    /\ f_out = <<>>
    /\ flushed = 0
    /\ process_logs = <<>>
    /\ log_file = <<>>

InitClean ==
    /\ call \in {[fn |-> "clean_answer_aggressive", answer |-> s] : s \in CleanInputs}
    /\ ret = <<>>
    /\ PipelineIdle

\* the caller applies clean_answer_aggressive to its input
CallClean ==
    /\ call.fn = "clean_answer_aggressive"
    /\ ret = <<>>
    /\ ret' = <<clean_answer_aggressive(call.answer)>>
    /\ UNCHANGED <<call, pvars>>

\* the caller applies clean_answer_aggressive to the result of the first call
CallCleanAgain ==
    /\ call.fn = "clean_answer_aggressive"
    /\ Len(ret) = 1
    /\ ret' = Append(ret, clean_answer_aggressive(ret[1]))
    /\ UNCHANGED <<call, pvars>>

NextClean == CallClean \/ CallCleanAgain

SpecClean == InitClean /\ [][NextClean]_vars

\* "A，B，C"
TextABC == <<"A", FullWidthComma, "B", FullWidthComma, "C">>

QueryPieces == { TextABC, <<"A">>, <<"B">>, <<FullWidthComma>>, <<",">>, <<" ">> }

\* texts of length 5, 9 and 10: below, just below and at MinQueryTextLen
QueryTexts ==
    { TextABC,
      TextABC \o <<FullWidthComma, "A", FullWidthComma, "B">>,
      TextABC \o TextABC }

QueryGenerators ==
    {GeneratorRaises, GeneratorReturns(<<>>)}
        \cup {GeneratorReturns(<<Concat(ps)>>) : ps \in SeqsUpTo(QueryPieces, MaxPieces)}

InitQuerys ==
    /\ call \in {[fn |-> "extract_core_querys", text |-> t, generator |-> g] :
                    t \in QueryTexts, g \in QueryGenerators}
    /\ ret = <<>>
    /\ PipelineIdle

\* the caller applies extract_core_querys to its input
CallQuerys ==
    /\ call.fn = "extract_core_querys"
    /\ ret = <<>>
    /\ ret' = <<extract_core_querys(call.text, call.generator)>>
    /\ UNCHANGED <<call, pvars>>

NextQuerys == CallQuerys

SpecQuerys == InitQuerys /\ [][NextQuerys]_vars

\* the cleaning stages left a string no stage of clean.py would touch, as the
\* idempotence property of the specification describes it
LooksClean(r) ==
    /\ \A k \in 1..Len(bad_starts) : ~StartsWith(r, bad_starts[k])
    /\ ~HasChar(Take(r, ColonWindow), ":")
    /\ (r # <<>> => /\ r[1] \notin {"\"", "'"}
                    /\ r[Len(r)] \notin {"\"", "'"})
    /\ Len(r) <= MaxAnswerLen

\* ... and that holds no clause delimiter, ends in no "!" or "?" and has no
\* whitespace around it
LooksBare(r) ==
    /\ LooksClean(r)
    /\ \A k \in 1..Len(delimiters) : ~HasChar(r, delimiters[k])
    /\ (r # <<>> => /\ r[Len(r)] \notin {"!", "?"}
                    /\ r[1] \notin Whitespace
                    /\ r[Len(r)] \notin Whitespace)

Cleaned == call.fn = "clean_answer_aggressive" /\ Len(ret) >= 1

CleanedTwice == call.fn = "clean_answer_aggressive" /\ Len(ret) = 2

(* C8: for every input s, clean_answer_aggressive(s) has length at most 30, is
   empty when s is empty and is non-empty when s is non-empty. *)
C8_LengthAndEmptiness ==
    Cleaned =>
        /\ Len(ret[1]) <= 30
        /\ (call.answer = <<>> => ret[1] = <<>>)
        /\ (call.answer # <<>> => ret[1] # <<>>)

\* an input longer than the cap was cut to exactly the cap
C8_Witness == Cleaned /\ Len(call.answer) > 30 /\ Len(ret[1]) = 30

(* C9 as claimed: when r = clean_answer_aggressive(s) starts with no listed
   prefix, has no colon in its first 15 characters, no quote at either end and
   length at most 30, cleaning r again gives r. *)
C9_IdempotentOnClean == (CleanedTwice /\ LooksClean(ret[1])) => ret[2] = ret[1]

(* C9 amended: when r = clean_answer_aggressive(s) moreover holds none of the
   clause delimiters "," "." newline ";", does not end in "!" or "?" and has no
   leading or trailing whitespace, cleaning r again gives r. *)
C9_IdempotentOnBare == (CleanedTwice /\ LooksBare(ret[1])) => ret[2] = ret[1]

\* the first pass changed its input into a bare answer, and the second kept it
C9_Witness ==
    /\ CleanedTwice
    /\ LooksBare(ret[1])
    /\ ret[1] # <<>>
    /\ ret[1] # call.answer
    /\ ret[2] = ret[1]

QuerysReturned == call.fn = "extract_core_querys" /\ Len(ret) = 1

GeneratorEchoesABC == call.generator = GeneratorReturns(<<TextABC>>)

(* C10 as claimed: extract_core_querys called with the text "A，B，C" and a
   generator that returns "A，B，C" returns ["A", "B", "C"]. *)
C10_SplitsABCText ==
    (QuerysReturned /\ call.text = TextABC /\ GeneratorEchoesABC)
        => ret[1] = <<<<"A">>, <<"B">>, <<"C">>>>

(* C10 amended: extract_core_querys called with a text of at least 10
   characters and a generator that returns "A，B，C" returns ["A", "B", "C"]:
   the full-width commas of the generator's output are normalized before the
   split, each segment is trimmed and empty segments are dropped. *)
C10_SplitsABCOutput ==
    (QuerysReturned /\ Len(call.text) >= 10 /\ GeneratorEchoesABC)
        => ret[1] = <<<<"A">>, <<"B">>, <<"C">>>>

\* a long enough text was decomposed through the generator's "A，B，C"
C10_Witness ==
    /\ QuerysReturned
    /\ Len(call.text) >= 10
    /\ GeneratorEchoesABC
    /\ Len(ret[1]) = 3

-----------------------------------------------------------------------------
(* The three routines of extract.py that decompose a question, applied to a
   text and a behaviour of the generator. *)

\* the pieces of a question text: words, numbers, punctuation, a letter on its
\* own and a run of letters longer than the 15 of extract.py:99
DecomposePieces ==
    { <<"a", "a", " ", "b", "b", " ", "c", "c", " ", "d", "d", " ", "e", "e", " ", "f", "f", " ", "g", "g", " ">>,
      <<"1", " ", "2", "2", " ", "3", "3", "3", " ", "4", " ">>,
      <<"?", "!", "?", "!", "?", "!", "?", "!", "?", "!", "?", "!">>,
      <<"W", "h", "o", " ", "s", "i", "n", "g", "s", "?">>,
      <<"a", "b", "c", "d", "e", "f", "g", "h", "i", "j", "k", "l", "m", "n", "o", "p">>,
      <<"x">>, <<".">> }

DecomposeTexts == {Concat(ps) : ps \in SeqsUpTo(DecomposePieces, MaxPieces)}

\* the replies of the generator: labelled ones, an empty string, and strings
\* made of separators only
DecomposeGenerators ==
    {GeneratorRaises, GeneratorReturns(<<>>)}
        \cup {GeneratorReturns(<<reply>>) :
                reply \in {CoreReply, KeywordReply, TextABC, <<"?">>, <<"a", " ", "b">>,
                           <<>>, <<" ">>, <<",", " ", ",">>}}

InitDecompose ==
    /\ call \in {[fn |-> f, text |-> text, generator |-> generator] :
                    f \in {"extract_question_with_llm", "extract_core_entities",
                           "extract_core_querys"},
                    text \in DecomposeTexts, generator \in DecomposeGenerators}
    /\ ret = <<>>
    /\ PipelineIdle

\* the caller applies extract_question_with_llm to its input
CallQuestion ==
    /\ call.fn = "extract_question_with_llm"
    /\ ret = <<>>
    /\ ret' = <<extract_question_with_llm(call.text, call.generator)>>
    /\ UNCHANGED <<call, pvars>>

\* the caller applies extract_core_entities to its input
CallEntities ==
    /\ call.fn = "extract_core_entities"
    /\ ret = <<>>
    /\ ret' = <<extract_core_entities(call.text, call.generator)>>
    /\ UNCHANGED <<call, pvars>>

NextDecompose == CallQuestion \/ CallEntities \/ CallQuerys

SpecDecompose == InitDecompose /\ [][NextDecompose]_vars

\* the places a..b of the text that hold only characters of C, with no
\* character of Around on either side
Spans(text, C, Around) ==
    {span \in (1..Len(text)) \X (1..Len(text)) :
        /\ span[1] <= span[2]
        /\ \A k \in span[1]..span[2] : text[k] \in C
        /\ (span[1] = 1 \/ text[span[1] - 1] \notin Around)
        /\ (span[2] = Len(text) \/ text[span[2] + 1] \notin Around)}

\* the substrings at the spans, in their order of appearance in the text
InOrderOfAppearance(text, spans) ==
    [n \in 1..Cardinality(spans) |->
        LET span == CHOOSE s \in spans :
                        Cardinality({o \in spans : o[1] < s[1]}) = n - 1
        IN  SubSeq(text, span[1], span[2])]

\* the alphabetic tokens of 2 to 15 letters: runs of letters between characters
\* that belong to no word
AlphabeticTokens(text) ==
    InOrderOfAppearance(text,
        {span \in Spans(text, Letters, WordChars) : span[2] - span[1] + 1 \in 2..15})

\* the numeric tokens: the maximal runs of digits
NumericTokens(text) == InOrderOfAppearance(text, Spans(text, Digits, Digits))

EntitiesReturned == call.fn = "extract_core_entities" /\ Len(ret) = 1

(* C11: with a generator that raises, extract_core_entities returns a non-empty
   sequence of at most 10 elements computed from the text alone: up to 6
   alphabetic tokens of length 2 to 15 followed by up to 3 numeric tokens, each
   group in order of appearance; the single element text[:30] when the text has
   no such token; and the text itself when it is shorter than 10. *)
C11_RaisingGeneratorGivesFallback ==
    (EntitiesReturned /\ call.generator.raises) =>
        /\ ret[1] # <<>>
        /\ Len(ret[1]) <= 10
        /\ Len(call.text) < 10 => ret[1] = <<call.text>>
        /\ Len(call.text) >= 10 =>
              LET words   == AlphabeticTokens(call.text)
                  numbers == NumericTokens(call.text)
              IN  IF words = <<>> /\ numbers = <<>>
                  THEN ret[1] = <<Take(call.text, 30)>>
                  ELSE ret[1] = Take(words, 6) \o Take(numbers, 3)

\* a text with more than 6 words and more than 3 numbers gave 6 words and 3
\* numbers
C11_Witness ==
    /\ EntitiesReturned
    /\ call.generator.raises
    /\ Len(AlphabeticTokens(call.text)) > 6
    /\ Len(NumericTokens(call.text)) > 3
    /\ Len(ret[1]) = 9

QuestionReturned == call.fn = "extract_question_with_llm" /\ Len(ret) = 1

GeneratorReplied == ~call.generator.raises /\ call.generator.out # <<>>

\* the separators of extract.py:90
KeywordSeparators == {","} \cup Whitespace

\* the reply holds, behind its labels, two characters in a row that are no
\* separators
HasKeyword(reply) ==
    LET entities_str == StripLabels(Strip(reply), entity_labels, 1)
    IN  \E k \in 1..(Len(entities_str) - 1) :
            /\ entities_str[k] \notin KeywordSeparators
            /\ entities_str[k + 1] \notin KeywordSeparators

\* the reply holds a character that is no comma and no whitespace
HasQuery(reply) ==
    \E k \in 1..Len(reply) : reply[k] \notin {",", FullWidthComma} \cup Whitespace

(* C12 as claimed: for every text and every behaviour of the generator the
   three routines return a usable value: a non-empty string for the core
   question, a non-empty sequence for the keywords and for the sub-queries. *)
C12_AlwaysUsable ==
    (call.fn \in {"extract_question_with_llm", "extract_core_entities",
                  "extract_core_querys"} /\ Len(ret) = 1)
        => ret[1] # <<>>

(* C12 amended: the three routines return without raising; the core question is
   a non-empty string unless the text is empty; the keyword sequence is empty
   exactly when the text has at least 10 characters and the generator returns
   a string with no token of 2 or more characters behind its labels; the
   sub-query sequence is empty exactly when the text has at least 10
   characters and the generator returns a string of commas and whitespace
   only. *)
C12_UsableUnlessBlankReply ==
    /\ QuestionReturned => (ret[1] = <<>> <=> call.text = <<>>)
    /\ EntitiesReturned =>
          (ret[1] = <<>> <=> /\ Len(call.text) >= 10
                             /\ GeneratorReplied
                             /\ ~HasKeyword(call.generator.out[1]))
    /\ QuerysReturned =>
          (ret[1] = <<>> <=> /\ Len(call.text) >= 10
                             /\ GeneratorReplied
                             /\ ~HasQuery(call.generator.out[1]))

\* a reply of commas and a blank left no keyword for a text of words
C12_Witness ==
    /\ EntitiesReturned
    /\ call.generator = GeneratorReturns(<< <<",", " ", ",">> >>)
    /\ AlphabeticTokens(call.text) # <<>>
    /\ ret[1] = <<>>

-----------------------------------------------------------------------------
(* extract_relevant_sentences applied to a list of documents, a question and
   a cap. *)

\* extract.py:189, the number of collected sentences that are scored
ScoredWindow == 50

\* the largest cap the caller passes
MaxCap == 3

\* the largest number of documents in a call
MaxDocuments == 2

\* 'Who sings in the band？Nobody sings at all\nshort'
DocSingers ==
    <<"W", "h", "o", " ", "s", "i", "n", "g", "s", " ", "i", "n", " ", "t", "h", "e", " ", "b", "a", "n", "d", "U+FF1F", "N", "o", "b", "o", "d", "y", " ", "s", "i", "n", "g", "s", " ", "a", "t", " ", "a", "l", "l", "\n", "s", "h", "o", "r", "t">>

\* 'the band plays on'
DocPlays == <<"t", "h", "e", " ", "b", "a", "n", "d", " ", "p", "l", "a", "y", "s", " ", "o", "n">>

RECURSIVE Repeat(_, _)
Repeat(s, n) == IF n = 0 THEN <<>> ELSE s \o Repeat(s, n - 1)

\* as many sentences without a keyword as are scored, and behind them one
\* with keywords
DocLong ==
    Repeat(<<"z", "z", " ", "f", "i", "l", "l", "e", "r", " ", "t", "e", "x", "t", "\n">>, ScoredWindow)
        \o <<"K", "o", "b", "e", " ", "b", "a", "n", "d", " ", "f", "r", "o", "m", " ", "K", "o", "b", "e">>

SentenceDocuments == {RefContent, DocSingers, DocPlays, DocLong, <<>>}

\* a question with the keywords a, band, from, kobe, who, sings; one with the
\* keywords who, is; one without keywords
SentenceQuestions == {LongText, ShortText, <<"?">>}

InitSentences ==
    /\ call \in {[fn |-> "extract_relevant_sentences", documents |-> documents,
                  question |-> question, max_sentences |-> max_sentences] :
                    documents \in SeqsUpTo(SentenceDocuments, MaxDocuments),
                    question \in SentenceQuestions,
                    max_sentences \in 0..MaxCap}
    /\ ret = <<>>
    /\ PipelineIdle

\* the caller applies extract_relevant_sentences to its input
CallSentences ==
    /\ call.fn = "extract_relevant_sentences"
    /\ ret = <<>>
    /\ ret' = <<extract_relevant_sentences(call.documents, call.question,
                                           call.max_sentences)>>
    /\ UNCHANGED <<call, pvars>>

NextSentences == CallSentences

SpecSentences == InitSentences /\ [][NextSentences]_vars

SentencesReturned == call.fn = "extract_relevant_sentences" /\ Len(ret) = 1

\* the sentences collected from the documents of the call
Collected == AllSentences(call.documents)

RECURSIVE ScoresOf(_, _)
\* the scores of the sentences: the number of keywords among the words of each
ScoresOf(sentences, keywords) ==
    IF sentences = <<>> THEN <<>>
    ELSE <<Cardinality(keywords \cap KeywordSet(Head(sentences)))>>
             \o ScoresOf(Tail(sentences), keywords)

\* the scores of the first 50 collected sentences
Scores == ScoresOf(Take(Collected, ScoredWindow), KeywordSet(call.question))

\* the first m of the scored sentences by score descending, ties in collection
\* order: the sentence in place n has n - 1 sentences ahead of it
Front(sentences, scores, m) ==
    [n \in 1..m |->
        sentences[CHOOSE k \in 1..Len(scores) :
            Cardinality({j \in 1..Len(scores) :
                            \/ scores[j] > scores[k]
                            \/ scores[j] = scores[k] /\ j < k}) = n - 1]]

PositivesOf(scores) == Cardinality({k \in 1..Len(scores) : scores[k] > 0})

(* C13 as claimed: when at least one sentence was collected and some sentence
   among the first 50 has score > 0, the result is the newline-join of at most
   max_sentences sentences, all with score > 0, from the front of the order
   'score descending, ties in collection order'; when none has score > 0 it is
   the newline-join of the first two collected sentences. *)
C13_TopSentencesOrFirstTwo ==
    (SentencesReturned /\ Collected # <<>>) =>
        LET collected == Collected
            scores    == Scores
            positives == PositivesOf(scores)
        IN  IF positives > 0
            THEN \E n \in 0..Min({call.max_sentences, positives}) :
                    ret[1] = Join(Front(collected, scores, n), <<"\n">>)
            ELSE ret[1] = Join(Take(collected, 2), <<"\n">>)

(* C13 amended: when at least one sentence was collected, max_sentences is at
   least 0 and k is the smaller of max_sentences and the number of sentences
   with score > 0 among the first 50: if k > 0 the result is the newline-join
   of the first k sentences of that order; if k = 0, be it that no sentence
   has score > 0 or that max_sentences is 0, it is the newline-join of the
   first two collected sentences. *)
C13_TopSentencesElseFirstTwo ==
    (SentencesReturned /\ Collected # <<>>) =>
        LET collected == Collected
            scores    == Scores
            kept      == Min({call.max_sentences, PositivesOf(scores)})
        IN  IF kept > 0
            THEN ret[1] = Join(Front(collected, scores, kept), <<"\n">>)
            ELSE ret[1] = Join(Take(collected, 2), <<"\n">>)

\* two sentences of equal score, the best of four, were returned in the order
\* they were collected in
C13_Witness ==
    /\ SentencesReturned
    /\ call.max_sentences = 2
    /\ Scores = <<3, 0, 3, 1>>
    /\ ret[1] = Collected[1] \o <<"\n">> \o Collected[3]

-----------------------------------------------------------------------------
(* The prefix stage of clean_answer_aggressive *)

\* the entries of bad_starts the answer starts with
MatchingStarts(answer) == {k \in 1..Len(bad_starts) : StartsWith(answer, bad_starts[k])}

\* the answer without the first entry of the list it starts with, trimmed; the
\* answer itself when it starts with none
WithoutFirstMatch(answer) ==
    IF MatchingStarts(answer) = {} THEN answer
    ELSE Strip(Drop(answer, Len(bad_starts[Min(MatchingStarts(answer))])))

\* the stages of clean.py:25-47 behind the prefix stage
LaterStages(answer, original) ==
    LET last == Strip(LengthCap(TrailingPunct(FirstClause(QuoteStrip(ColonSplit(answer)), 1))))
    IN  IF last # <<>> THEN last ELSE Take(original, FallbackLen)

(* C15: the prefix stage of clean_answer_aggressive removes at most one lead-in
   phrase per call, the first entry of the list that the answer starts with;
   the scan stops there, and a later entry is not removed even if the answer
   or the remaining text starts with it. *)
C15_FirstMatchOnly ==
    (Cleaned /\ call.answer # <<>>) =>
        ret[1] = LaterStages(WithoutFirstMatch(call.answer), call.answer)

\* "The" was removed, and the "It is" then at the start was kept
C15_Witness ==
    /\ Cleaned
    /\ StartsWith(call.answer, <<"T", "h", "e">>)
    /\ StartsWith(ret[1], <<"I", "t", " ", "i", "s">>)
    /\ ret[1] = Drop(call.answer, 3)
    /\ Len(ret[1]) > 5

====
